---- MODULE Spec2Model ----
(***************************************************************************)
(* Model of the Pixyelator pixelation pipeline (src/index.js and           *)
(* src/innerWorker.js): argument validation, the per-axis partition, the   *)
(* stripe task queue, the worker pool and the compositor.                  *)
(***************************************************************************)
EXTENDS Integers, Sequences, FiniteSets, TLC

(***************************************************************************)
(* Bounds of the model.                                                    *)
(***************************************************************************)
\* largest dimension whose partitions are enumerated by PartSpec
MaxPartDim == 80
\* largest natural width and height of the source image in Spec
MaxDim == 3
\* largest natural width and height of the source image in GridSpec
MaxGridDim == 4
\* number of accepted pixelate calls on the instance
MaxCalls == 1
\* largest natural width and height of the source image in RasterSpec
MaxRasterDim == 2
\* number of accepted pixelate calls on the instance in RasterSpec
MaxOutDim == 2
MaxOutCalls == 2
MaxRegion == 4
ScenarioDim == 10
MaxRasterCalls == 2
MaxOpaqueDim == 2
MaxOverlapCalls == 2

(***************************************************************************)
(* IEEE-754 double arithmetic, as far as index.js:202 and :212 use it:     *)
(* Math.floor(i * (pixels / remainderPixels)) on small positive integers   *)
(* (part_001:17-25 floors the multiples of such a quotient as well).       *)
(* A positive double x >= 1 is held exactly, as                            *)
(*    int + hi / 2^LimbBits + mid / 2^(2*LimbBits) + lo / 2^(2*LimbBits+lb)*)
(* where int has BitLen(int) bits and the fraction has the remaining       *)
(* Mantissa - BitLen(int) bits: two limbs of LimbBits bits and a last limb *)
(* of lb bits.  Operands stay below 2^10, so every intermediate value fits *)
(* the 32-bit integers of TLC.                                             *)
(***************************************************************************)
Mantissa == 53
LimbBits == 20
Limb == 2 ^ LimbBits

RECURSIVE BitLen(_)
BitLen(n) == IF n = 0 THEN 0 ELSE 1 + BitLen(n \div 2)

\* x + 1 unit in the last place
AddUlp(x) ==
    LET lo  == x.lo + 1
        cl  == lo \div (2 ^ x.lb)
        mid == x.mid + cl
        cm  == mid \div Limb
        hi  == x.hi + cm
        ch  == hi \div Limb
    IN  [int |-> x.int + ch, hi |-> hi % Limb, mid |-> mid % Limb,
         lo |-> lo % (2 ^ x.lb), lb |-> x.lb]

\* the double nearest to a / b (ties to even), for integers a >= b >= 1
FloatDiv(a, b) ==
    LET int == a \div b
        lb  == Mantissa - BitLen(int) - 2 * LimbBits
        r0  == a % b
        hi  == (r0 * Limb) \div b
        r1  == (r0 * Limb) % b
        mid == (r1 * Limb) \div b
        r2  == (r1 * Limb) % b
        lo  == (r2 * (2 ^ lb)) \div b
        r3  == (r2 * (2 ^ lb)) % b
        x   == [int |-> int, hi |-> hi, mid |-> mid, lo |-> lo, lb |-> lb]
    IN  IF 2 * r3 > b \/ (2 * r3 = b /\ lo % 2 = 1) THEN AddUlp(x) ELSE x

\* the double nearest to i * x (ties to even), for an integer i >= 0
FloatMulInt(i, x) ==
    IF i = 0 THEN [int |-> 0, hi |-> 0, mid |-> 0, lo |-> 0, lb |-> 0]
    ELSE LET pl   == i * x.lo
             pm   == i * x.mid + pl \div (2 ^ x.lb)
             ph   == i * x.hi + pm \div Limb
             int  == i * x.int + ph \div Limb
             \* the exact product has BitLen(int) - BitLen(x.int) bits too many
             d    == BitLen(int) - BitLen(x.int)
             low  == pl % (2 ^ x.lb)
             kept == [int |-> int, hi |-> ph % Limb, mid |-> pm % Limb,
                      lo |-> low \div (2 ^ d), lb |-> x.lb - d]
             drop == low % (2 ^ d)
             half == IF d = 0 THEN 1 ELSE 2 ^ (d - 1)
         IN  IF d > 0 /\ (drop > half \/ (drop = half /\ kept.lo % 2 = 1))
             THEN AddUlp(kept) ELSE kept

\* Math.floor of a non-negative double
FloatFloor(x) == x.int

\* the enlarged entries packed at the leading end
incrementIndexLeading(i, pixels, remainderPixels) == i

\* the operands of the division swapped
incrementIndexSwapped(i, pixels, remainderPixels) == (i * remainderPixels) \div pixels

\* index.js:202 / :212   Math.floor(i * (pixels / remainderPixels))
incrementIndex(i, pixels, remainderPixels) ==
    FloatFloor(FloatMulInt(i, FloatDiv(pixels, remainderPixels)))

(***************************************************************************)
(* The per-axis partition, index.js:193-214.                               *)
(***************************************************************************)
\* Math.ceil in place of Math.floor
baseSectionsCeil(dimension, pixels) ==
    [j \in 1..pixels |-> (dimension + pixels - 1) \div pixels]

\* Array.from({ length: pixels }, () => Math.floor(dimension / pixels))
baseSections(dimension, pixels) == [j \in 1..pixels |-> dimension \div pixels]

\* the remainder given to the last entries of the sequence
RECURSIVE incrementLoopTrailing(_, _, _, _)
incrementLoopTrailing(sections, i, pixels, remainderPixels) ==
    IF i >= remainderPixels THEN sections
    ELSE incrementLoopTrailing([sections EXCEPT ![pixels - i] = @ + 1],
                               i + 1, pixels, remainderPixels)

\* the loop  for (i = 0; i < remainderPixels; i++) sections[index(i)]++
\* run from iteration i on; indices are 0-based in the code, 1-based here
RECURSIVE incrementLoop(_, _, _, _)
incrementLoop(sections, i, pixels, remainderPixels) ==
    IF i >= remainderPixels THEN sections
    ELSE LET at == incrementIndex(i, pixels, remainderPixels) + 1
         IN  incrementLoop(
                 IF at \in DOMAIN sections
                 THEN [sections EXCEPT ![at] = @ + 1] ELSE sections,
                 i + 1, pixels, remainderPixels)

individualSections(dimension, pixels) ==
    incrementLoop(baseSections(dimension, pixels), 0, pixels, dimension % pixels)

(***************************************************************************)
(* The single-pass worker (src/unnamed/part_001) cuts an axis into blocks  *)
(* with one quotient in double arithmetic, blockWidth = dimension / pixels,*)
(* and floors its multiples.                                               *)
(***************************************************************************)
\* a single-pass worker that cuts the blocks in exact integer arithmetic
blockStartExact(b, dimension, pixels) == (b * dimension) \div pixels

\* Math.floor(bx * blockWidth)
blockStart(b, dimension, pixels) ==
    FloatFloor(FloatMulInt(b, FloatDiv(dimension, pixels)))

\* Math.floor((bx + 1) * blockWidth) - x
blockSize(b, dimension, pixels) ==
    blockStart(b + 1, dimension, pixels) - blockStart(b, dimension, pixels)

\* the blocks of the loop over bx (or by), in loop order
blocks(dimension, pixels) ==
    [k \in 1..pixels |->
        [x |-> blockStart(k - 1, dimension, pixels),
         w |-> blockSize(k - 1, dimension, pixels)]]

(***************************************************************************)
(* JavaScript numbers passed to pixelate: num / den with den > 0.          *)
(***************************************************************************)
Num(n, d) == [num |-> n, den |-> d]
IsInteger(v) == v.num % v.den = 0                   \* Number.isInteger

NoError == "none"
DisposedError == "Cannot operate on disposed Pixyelator instance"
InvalidDimensionError == "Pixel dimensions must be positive integers"
DimensionExceedsError == "Pixel dimensions cannot exceed image dimensions"

\* options.maxWorkers || navigator.hardwareConcurrency || 4   (0 is unset)
FallbackWorkers == 4
resolveMaxWorkers(option, hardwareConcurrency) ==
    IF option # 0 THEN option
    ELSE IF hardwareConcurrency # 0 THEN hardwareConcurrency
    ELSE FallbackWorkers

\* the maxWorkers options (0: not given) and the hardwareConcurrency values
\* (0: not available) of the instances examined
WorkerOptions == {0, 1, 2}
HardwareHints == {0, 3}

Min(a, b) == IF a <= b THEN a ELSE b
Max(a, b) == IF a >= b THEN a ELSE b

RECURSIVE Sum(_)
Sum(seq) == IF seq = << >> THEN 0 ELSE Head(seq) + Sum(Tail(seq))

VARIABLES
    imageElement,       \* the pixels of this._imageElement
    width, height,      \* this._width, this._height
    maxWorkers,         \* this._maxWorkers
    isDisposed,         \* this._isDisposed
    canvas,             \* the target canvas: [w, h, px]
    calls,              \* the closure of each accepted pixelate call
    nextCall,           \* number of accepted pixelate calls + 1
    lastError,          \* what the latest pixelate call threw
    pDim, pCells, pSections, \* PartSpec: a dimension, a cell count, its partition
    pBlocks,            \* PartSpec: the blocks the single-pass worker cuts it into
    chains,             \* per call: the chained method that awaits its promise
    output,             \* what the latest output method or dispose() gave
    workerCell          \* CellSpec: one cell in the worker: data, average, fill

vars == <<imageElement, width, height, maxWorkers, isDisposed, canvas, calls,
          nextCall, lastError, pDim, pCells, pSections, pBlocks, chains, output,
          workerCell>>
instanceVars == <<imageElement, width, height, maxWorkers, isDisposed>>
partVars == <<pDim, pCells, pSections, pBlocks>>
outVars == <<chains, output>>

\* the arguments tried: every cell count up to one beyond the source (a larger
\* one is rejected the same way), zero, a negative and a fractional one
Args == {Num(n, 1) : n \in -1..(Max(width, height) + 1)} \cup {Num(3, 2)}
\* the cell counts tried where validation is not examined: every valid one
\* and one beyond the source
CellCounts(dimension) == {Num(n, 1) : n \in 1..(dimension + 1)}

(***************************************************************************)
(* Colours and bitmaps.  A colour is <<r, g, b, a>> with every channel in  *)
(* 0..255 and not premultiplied, as getImageData returns it.  A bitmap     *)
(* (the canvas, an ImageBitmap, an OffscreenCanvas) is [w, h, px] with px  *)
(* a function from Pixels(w, h) to colours.                                *)
(***************************************************************************)
Blank == <<0, 0, 0, 0>>
Pixels(w, h) == (0..(w - 1)) \X (0..(h - 1))
\* canvas.width = w; canvas.height = h  resizes and clears the bitmap
sizedCanvas(w, h) == [w |-> w, h |-> h, px |-> [p \in Pixels(w, h) |-> Blank]]
InRect(p, r) ==
    /\ r.x <= p[1] /\ p[1] < r.x + r.w
    /\ r.y <= p[2] /\ p[2] < r.y + r.h
Rect(x, y, w, h) == [x |-> x, y |-> y, w |-> w, h |-> h]

\* the colours of the source images examined: two opaque ones, a fully
\* transparent one and an almost transparent one
Red   == <<255, 0, 0, 255>>
Teal  == <<0, 128, 255, 255>>
Faint == <<255, 0, 0, 1>>
Palette == {Red, Teal, Blank, Faint}
Dusk  == <<254, 127, 1, 3>>

\* the source images examined by Spec and GridSpec: one opaque colour
Solid(w, h) == [p \in Pixels(w, h) |-> Red]

\* the source pixel copied, whatever its alpha
sourceOverCopy(src, dst) == src

\* the default compositing of a 2d context: src drawn over dst.  Exact when
\* src is opaque or fully transparent or dst is fully transparent; otherwise
\* the blend, rounded down
sourceOver(src, dst) ==
    IF src[4] = 255 THEN src
    ELSE IF src[4] = 0 THEN dst
    ELSE IF dst[4] = 0 THEN src
    ELSE LET rest == dst[4] * (255 - src[4])
             a    == src[4] + rest \div 255
             mix(ch) == (src[ch] * src[4] * 255 + dst[ch] * rest) \div (255 * a)
         IN  <<mix(1), mix(2), mix(3), a>>

\* createImageBitmap(element, sx, sy, sw, sh)
createImageBitmap(element, r) ==
    [w |-> r.w, h |-> r.h,
     px |-> [p \in Pixels(r.w, r.h) |-> element[<<p[1] + r.x, p[2] + r.y>>]]]

\* ctx.drawImage(bitmap, x, y): the bitmap composited at (x, y), clipped to
\* the canvas; its transparent pixels leave the canvas as it is.  (The
\* operands are bound by a quantifier so that TLC evaluates each once.)
drawImage(cv, bitmap, x, y) ==
    CHOOSE out \in
        {[c EXCEPT !.px = [p \in DOMAIN c.px |->
             IF <<p[1] - x, p[2] - y>> \in DOMAIN b.px
             THEN sourceOver(b.px[<<p[1] - x, p[2] - y>>], c.px[p])
             ELSE c.px[p]]] : c \in {cv}, b \in {bitmap}} : TRUE

\* ctx.getImageData(x, y, w, h).data, one colour per pixel, row by row
getImageData(cv, r) ==
    CHOOSE data \in
        {[k \in 1..(r.w * r.h) |->
             c.px[<<r.x + ((k - 1) % r.w), r.y + ((k - 1) \div r.w)>>]] :
                c \in {cv}} : TRUE

\* ctx.fillRect(x, y, w, h) with fillStyle = style
fillRect(cv, r, style) ==
    CHOOSE out \in
        {[c EXCEPT !.px = [p \in DOMAIN c.px |->
             IF InRect(p, r) THEN sourceOver(st, c.px[p]) ELSE c.px[p]]] :
                c \in {cv}, st \in {style}} : TRUE

(***************************************************************************)
(* One pixelate call: the closure of _pixelateElementToCanvas.             *)
(***************************************************************************)
\* outerDimension advanced before the push instead of after it
RECURSIVE buildTasksLate(_, _)
buildTasksLate(outerValues, outerDimension) ==
    IF outerValues = << >> THEN << >>
    ELSE <<[outerValue |-> Head(outerValues),
            outerDimension |-> outerDimension + Head(outerValues)]>>
         \o buildTasksLate(Tail(outerValues), outerDimension + Head(outerValues))

\* index.js:229-234  tasks.push([outerValue, outerDimension]) in order
RECURSIVE buildTasks(_, _)
buildTasks(outerValues, outerDimension) ==
    IF outerValues = << >> THEN << >>
    ELSE <<[outerValue |-> Head(outerValues), outerDimension |-> outerDimension]>>
         \o buildTasks(Tail(outerValues), outerDimension + Head(outerValues))

\* index.js:247-249  the source region cropped for a task
sliceRect(task, byRows) ==
    IF byRows THEN Rect(0, task.outerDimension, width, task.outerValue)
    ELSE Rect(task.outerDimension, 0, task.outerValue, height)

\* every result drawn at the origin of the canvas
drawOriginZero(task, byRows) == <<0, 0>>

\* index.js:296-298  where the result of a task is drawn
drawOrigin(task, byRows) ==
    IF byRows THEN <<0, task.outerDimension>> ELSE <<task.outerDimension, 0>>

\* every cell stretched over the whole outer extent of the worker's canvas
RECURSIVE workerCellsWholeCanvas(_, _, _, _)
workerCellsWholeCanvas(outerValue, innerValues, byRows, innerDimension) ==
    IF innerValues = << >> THEN << >>
    ELSE LET innerValue == Head(innerValues)
             cell == IF byRows
                     THEN Rect(innerDimension, 0, innerValue, height)
                     ELSE Rect(0, innerDimension, width, innerValue)
         IN  <<cell>> \o workerCellsWholeCanvas(outerValue, Tail(innerValues),
                                                byRows, innerDimension + innerValue)

\* innerWorker.js:46-68  the rectangles filled by the worker, in order,
\* in the coordinates of its own canvas
RECURSIVE workerCells(_, _, _, _)
workerCells(outerValue, innerValues, byRows, innerDimension) ==
    IF innerValues = << >> THEN << >>
    ELSE LET innerValue == Head(innerValues)
             cell == IF byRows
                     THEN Rect(innerDimension, 0, innerValue, outerValue)
                     ELSE Rect(0, innerDimension, outerValue, innerValue)
         IN  <<cell>> \o workerCells(outerValue, Tail(innerValues), byRows,
                                     innerDimension + innerValue)

\* the cells of a task where ctx.drawImage(result, x, y) puts them
destCells(task, innerValues, byRows) ==
    LET at    == drawOrigin(task, byRows)
        cells == workerCells(task.outerValue, innerValues, byRows, 0)
    IN  [k \in DOMAIN cells |->
            Rect(cells[k].x + at[1], cells[k].y + at[2], cells[k].w, cells[k].h)]

(***************************************************************************)
(* The worker, innerWorker.js.                                             *)
(***************************************************************************)
\* innerWorker.js:12-20  the sum of one channel over the pixels from..to of
\* the data (taken in halves, which keeps the evaluation shallow)
RECURSIVE channelSumOver(_, _, _, _)
channelSumOver(rgbaData, ch, from, to) ==
    IF from > to THEN 0
    ELSE IF from = to THEN rgbaData[from][ch]
    ELSE LET mid == (from + to) \div 2
         IN  channelSumOver(rgbaData, ch, from, mid)
                 + channelSumOver(rgbaData, ch, mid + 1, to)

\* innerWorker.js:12-20  the sum of one channel over all pixels of the data
channelSum(rgbaData, ch) == channelSumOver(rgbaData, ch, 1, Len(rgbaData))

\* the mean rounded to the nearest integer
getSingleRGBARounded(rgbaData) ==
    CHOOSE rgba \in
        {[ch \in 1..4 |->
             (2 * channelSum(data, ch) + Len(data)) \div (2 * Len(data))] :
            data \in {rgbaData}} : TRUE

\* innerWorker.js:2-28  per channel, Math.floor(sum / valueOccurence)
getSingleRGBA(rgbaData) ==
    CHOOSE rgba \in
        {[ch \in 1..4 |-> channelSum(data, ch) \div Len(data)] :
            data \in {rgbaData}} : TRUE

\* innerWorker.js:59  0.299 * r + 0.587 * g + 0.114 * b, in thousandths
luminance(r, g, b) == Num(299 * r + 587 * g + 114 * b, 1000)

\* a colour channel of a CSS rgba(): a number, rounded to the nearest
\* integer and clamped to 0..255
cssChannel(v) ==
    LET n == (2 * v.num + v.den) \div (2 * v.den)
    IN  IF n < 0 THEN 0 ELSE IF n > 255 THEN 255 ELSE n

\* the alpha of a CSS rgba(): a number clamped to 0..1, so that an integer
\* is either transparent or opaque; here on the scale 0..255
cssAlpha(a) == IF a >= 1 THEN 255 ELSE 0

\* red and blue exchanged
fillStyleSwapped(rgba, grayscale) ==
    <<cssChannel(Num(rgba[3], 1)), cssChannel(Num(rgba[2], 1)),
      cssChannel(Num(rgba[1], 1)), cssAlpha(rgba[4])>>

\* innerWorker.js:57-63  the colour that ctx.fillStyle holds
fillStyle(rgba, grayscale) ==
    CHOOSE style \in
        {IF grayscale
         THEN <<cssChannel(luminance(v[1], v[2], v[3])),
                cssChannel(luminance(v[1], v[2], v[3])),
                cssChannel(luminance(v[1], v[2], v[3])), cssAlpha(v[4])>>
         ELSE <<cssChannel(Num(v[1], 1)), cssChannel(Num(v[2], 1)),
                cssChannel(Num(v[3], 1)), cssAlpha(v[4])>> : v \in {rgba}} : TRUE

\* innerWorker.js:48-68  the loop over the cells of the stripe
RECURSIVE fillCells(_, _, _)
fillCells(cv, cells, grayscale) ==
    IF cells = << >> THEN cv
    ELSE CHOOSE out \in
        {fillCells(fillRect(c, Head(cells),
                            fillStyle(getSingleRGBA(getImageData(c, Head(cells))),
                                      grayscale)),
                   Tail(cells), grayscale) : c \in {cv}} : TRUE

\* innerWorker.js:30-71  onmessage: the bitmap posted back for a stripe
onmessage(imageBitmap, w, h, outerValue, grayscale, innerValues, byRows) ==
    fillCells(drawImage(sizedCanvas(w, h), imageBitmap, 0, 0),
              workerCells(outerValue, innerValues, byRows, 0), grayscale)

\* the bitmap that resolves the promise of a task of a call
taskResult(call, task) ==
    onmessage(createImageBitmap(imageElement,
                                sliceRect(task, call.shouldAllocateByRows)),
              width, height, task.outerValue, call.grayscale,
              call.innerValues, call.shouldAllocateByRows)

UnusedCall ==
    [status |-> "unused", xPixels |-> 0, yPixels |-> 0,
     shouldAllocateByRows |-> FALSE, grayscale |-> FALSE,
     outerValues |-> << >>, innerValues |-> << >>,
     tasks |-> << >>, resolvedTasks |-> 0, workerArray |-> << >>,
     crops |-> {}, jobs |-> {}, failed |-> FALSE]

\* the worker not passed on: every task gets a new one
nextQueueFresh(call, innerWorker) ==
    IF Len(call.tasks) > 0
    THEN [call EXCEPT !.tasks = Tail(@),
                      !.crops = @ \cup {[task |-> Head(call.tasks),
                                         innerWorker |-> 0]}]
    ELSE call

\* the task handed on but left in the queue
nextQueueKeep(call, innerWorker) ==
    IF Len(call.tasks) > 0
    THEN [call EXCEPT !.crops = @ \cup {[task |-> Head(call.tasks),
                                         innerWorker |-> innerWorker]}]
    ELSE call

\* the task taken from the tail of the queue (tasks.pop())
nextQueueLast(call, innerWorker) ==
    IF Len(call.tasks) > 0
    THEN [call EXCEPT !.tasks = SubSeq(@, 1, Len(@) - 1),
                      !.crops = @ \cup {[task |-> call.tasks[Len(call.tasks)],
                                         innerWorker |-> innerWorker]}]
    ELSE call

\* index.js:287-294  nextQueue up to the call of createImageBitmap
nextQueue(call, innerWorker) ==
    IF Len(call.tasks) > 0
    THEN [call EXCEPT !.tasks = Tail(@),
                      !.crops = @ \cup {[task |-> Head(call.tasks),
                                         innerWorker |-> innerWorker]}]
    ELSE call

\* index.js:238-240  for (i = 0; i < maxProcesses; i++) nextQueue()
RECURSIVE startProcesses(_, _, _)
startProcesses(call, i, maxProcesses) ==
    IF i < maxProcesses THEN startProcesses(nextQueue(call, 0), i + 1, maxProcesses)
    ELSE call

\* the comparison turned around
shouldAllocateByRowsFlipped(xPixels, yPixels) == xPixels < yPixels

\* index.js:191
shouldAllocateByRows(xPixels, yPixels) == xPixels > yPixels

\* one process for every task, whatever the limit
maxProcessesAll(tasks, limit) == Len(tasks)

\* index.js:236
maxProcesses(tasks, limit) == Min(Len(tasks), limit)

\* index.js:177-240  the synchronous part of _pixelateElementToCanvas
newCall(xPixels, yPixels, grayscale) ==
    LET byRows == shouldAllocateByRows(xPixels, yPixels)
        individualSectionWidths  == individualSections(width, xPixels)
        individualSectionHeights == individualSections(height, yPixels)
        outerValues == IF byRows THEN individualSectionHeights
                       ELSE individualSectionWidths
        innerValues == IF byRows THEN individualSectionWidths
                       ELSE individualSectionHeights
        tasks == buildTasks(outerValues, 0)
        call  == [UnusedCall EXCEPT !.status = "pending",
                                    !.xPixels = xPixels,
                                    !.yPixels = yPixels,
                                    !.shouldAllocateByRows = byRows,
                                    !.grayscale = grayscale,
                                    !.outerValues = outerValues,
                                    !.innerValues = innerValues,
                                    !.tasks = tasks]
    IN  startProcesses(call, 0, maxProcesses(tasks, maxWorkers))

\* the Number.isInteger tests left out
pixelateErrorNoIntegerTest(xPixels, yPixels) ==
    IF isDisposed THEN DisposedError
    ELSE IF xPixels.num <= 0 \/ yPixels.num <= 0 THEN InvalidDimensionError
    ELSE IF \/ xPixels.num > width * xPixels.den
            \/ yPixels.num > height * yPixels.den
         THEN DimensionExceedsError
    ELSE NoError

\* a cell count equal to the dimension rejected as well
pixelateErrorExclusive(xPixels, yPixels) ==
    IF isDisposed THEN DisposedError
    ELSE IF \/ ~IsInteger(xPixels) \/ ~IsInteger(yPixels)
            \/ xPixels.num <= 0 \/ yPixels.num <= 0
         THEN InvalidDimensionError
    ELSE IF \/ xPixels.num >= width * xPixels.den
            \/ yPixels.num >= height * yPixels.den
         THEN DimensionExceedsError
    ELSE NoError

\* yPixels not compared with the height
pixelateErrorWidthOnly(xPixels, yPixels) ==
    IF isDisposed THEN DisposedError
    ELSE IF \/ ~IsInteger(xPixels) \/ ~IsInteger(yPixels)
            \/ xPixels.num <= 0 \/ yPixels.num <= 0
         THEN InvalidDimensionError
    ELSE IF xPixels.num > width * xPixels.den THEN DimensionExceedsError
    ELSE NoError

\* index.js:129-144  what pixelate throws, NoError when it goes on
pixelateError(xPixels, yPixels) ==
    IF isDisposed THEN DisposedError
    ELSE IF \/ ~IsInteger(xPixels) \/ ~IsInteger(yPixels)
            \/ xPixels.num <= 0 \/ yPixels.num <= 0
         THEN InvalidDimensionError
    ELSE IF \/ xPixels.num > width * xPixels.den
            \/ yPixels.num > height * yPixels.den
         THEN DimensionExceedsError
    ELSE NoError

Started(call) == call.status # "unused"

\* index.js:152-172 and 316-354  the names of the output methods
Methods == {"toBlob", "toCanvas", "toDataURL", "toArrayBuffer"}
NoMethod == "none"
\* no cell in the worker
NoCell == [rgbaData |-> << >>, grayscale |-> FALSE, rgba |-> << >>,
           fillStyle |-> << >>]
NoOutput == [method |-> NoMethod, call |-> 0, error |-> NoError, raster |-> << >>]

\* the disposed flag not looked at
outcomeUnchecked(method, c, cv) ==
    [method |-> method, call |-> c, error |-> NoError, raster |-> cv.px]

\* index.js:316-354  what an output method gives: the disposed error (thrown
\* by toCanvas and toDataURL, a rejection from the async toBlob and
\* toArrayBuffer), or else the pixels of the canvas as they are at that
\* moment (toCanvas hands out the canvas itself, the others encode it).
\* call is the pixelate call whose promise the method was chained to, 0 when
\* it was called on the instance.
outcome(method, c, cv) ==
    [method |-> method, call |-> c,
     error  |-> IF isDisposed THEN DisposedError ELSE NoError,
     raster |-> IF isDisposed THEN << >> ELSE cv.px]

\* index.js:152-172  await pixelatePromise; return this.toX(): when the
\* promise of call c is fulfilled the method chained to it goes on, in the
\* same turn of the event loop, and reads the canvas cv
settle(c, done, cv) ==
    IF done /\ chains[c] # NoMethod
    THEN /\ chains' = [chains EXCEPT ![c] = NoMethod]
         /\ output' = outcome(chains[c], c, cv)
    ELSE UNCHANGED <<chains, output>>

(***************************************************************************)
(* Actions.                                                                *)
(***************************************************************************)
\* the canvas sized before the arguments are validated
PixelateSizesFirst(xPixels, yPixels, grayscale) ==
    LET error == pixelateError(xPixels, yPixels)
    IN  /\ lastError' = error
        /\ canvas' = sizedCanvas(width, height)
        /\ IF error # NoError
           THEN UNCHANGED <<calls, nextCall>>
           ELSE /\ nextCall \in DOMAIN calls
                /\ calls' = [calls EXCEPT ![nextCall] =
                                newCall(xPixels.num \div xPixels.den,
                                        yPixels.num \div yPixels.den,
                                        grayscale)]
                /\ nextCall' = nextCall + 1
        /\ UNCHANGED <<instanceVars, partVars, outVars, workerCell>>

\* a canvas that already has the size of the source is not cleared
PixelateKeepsCanvas(xPixels, yPixels, grayscale) ==
    LET error == pixelateError(xPixels, yPixels)
    IN  /\ lastError' = error
        /\ IF error # NoError
           THEN UNCHANGED <<canvas, calls, nextCall>>
           ELSE /\ nextCall \in DOMAIN calls
                /\ canvas' = IF canvas.w = width /\ canvas.h = height
                             THEN canvas ELSE sizedCanvas(width, height)
                /\ calls' = [calls EXCEPT ![nextCall] =
                                newCall(xPixels.num \div xPixels.den,
                                        yPixels.num \div yPixels.den,
                                        grayscale)]
                /\ nextCall' = nextCall + 1
        /\ UNCHANGED <<instanceVars, partVars, outVars, workerCell>>

\* index.js:128-175  pixelate(xPixels, yPixels, { grayscale })
Pixelate(xPixels, yPixels, grayscale) ==
    LET error == pixelateError(xPixels, yPixels)
    IN  /\ lastError' = error
        /\ IF error # NoError
           THEN UNCHANGED <<canvas, calls, nextCall>>
           ELSE /\ nextCall \in DOMAIN calls
                /\ canvas' = sizedCanvas(width, height)
                /\ calls' = [calls EXCEPT ![nextCall] =
                                newCall(xPixels.num \div xPixels.den,
                                        yPixels.num \div yPixels.den,
                                        grayscale)]
                /\ nextCall' = nextCall + 1
        /\ UNCHANGED <<instanceVars, partVars, outVars, workerCell>>

\* index.js:251-283  createImageBitmap fulfils: the worker gets the slice
CropDone(c, crop) ==
    LET call   == calls[c]
        fresh  == crop.innerWorker = 0
        worker == IF fresh THEN Len(call.workerArray) + 1 ELSE crop.innerWorker
        array  == IF fresh THEN Append(call.workerArray, [terminated |-> 0])
                  ELSE call.workerArray
    IN  /\ crop \in call.crops
        /\ calls' = [calls EXCEPT ![c] =
               [call EXCEPT !.crops = @ \ {crop},
                            !.workerArray = array,
                            !.jobs = IF array[worker].terminated = 0
                                     THEN @ \cup {[task |-> crop.task,
                                                   innerWorker |-> worker]}
                                     ELSE @]]
        /\ UNCHANGED <<instanceVars, canvas, nextCall, lastError, partVars,
                       outVars, workerCell>>

\* index.js:251-257  createImageBitmap rejects: nothing handles it
CropFailed(c, crop) ==
    /\ crop \in calls[c].crops
    /\ calls' = [calls EXCEPT ![c].crops = @ \ {crop}, ![c].failed = TRUE]
    /\ UNCHANGED <<instanceVars, canvas, nextCall, lastError, partVars,
                       outVars, workerCell>>

\* the call resolved by the first stripe that lands
WorkerMessageFirst(c, job) ==
    LET call   == calls[c]
        queued == nextQueue([call EXCEPT !.jobs = @ \ {job}], job.innerWorker)
        at     == drawOrigin(job.task, call.shouldAllocateByRows)
        drawn  == drawImage(canvas, taskResult(call, job.task), at[1], at[2])
        done   == TRUE
    IN  /\ job \in call.jobs
        /\ canvas' = drawn
        /\ calls' = [calls EXCEPT ![c] =
               [queued EXCEPT
                   !.resolvedTasks = @ + 1,
                   !.workerArray =
                       [k \in DOMAIN @ |-> [terminated |-> @[k].terminated + 1]],
                   !.status = IF @ = "pending" THEN "resolved" ELSE @]]
        /\ settle(c, done, drawn)
        /\ UNCHANGED <<instanceVars, nextCall, lastError, partVars, workerCell>>

\* the worker that has answered is not given the next task
WorkerMessageNoRequeue(c, job) ==
    LET call == calls[c]
        at   == drawOrigin(job.task, call.shouldAllocateByRows)
        drawn == drawImage(canvas, taskResult(call, job.task), at[1], at[2])
        done == call.resolvedTasks + 1 = Len(call.outerValues)
    IN  /\ job \in call.jobs
        /\ canvas' = drawn
        /\ calls' = [calls EXCEPT ![c] =
               [call EXCEPT
                   !.jobs = @ \ {job},
                   !.resolvedTasks = @ + 1,
                   !.workerArray = IF done
                       THEN [k \in DOMAIN @ |-> [terminated |-> @[k].terminated + 1]]
                       ELSE @,
                   !.status = IF done /\ @ = "pending" THEN "resolved" ELSE @]]
        /\ settle(c, done, drawn)
        /\ UNCHANGED <<instanceVars, nextCall, lastError, partVars, workerCell>>

\* index.js:275-278 and 295-306  the worker posts its bitmap
WorkerMessage(c, job) ==
    LET call   == calls[c]
        queued == nextQueue([call EXCEPT !.jobs = @ \ {job}], job.innerWorker)
        at     == drawOrigin(job.task, call.shouldAllocateByRows)
        drawn  == drawImage(canvas, taskResult(call, job.task), at[1], at[2])
        done   == call.resolvedTasks + 1 = Len(call.outerValues)
    IN  /\ job \in call.jobs
        /\ canvas' = drawn
        /\ calls' = [calls EXCEPT ![c] =
               [queued EXCEPT
                   !.resolvedTasks = @ + 1,
                   !.workerArray = IF done
                       THEN [k \in DOMAIN @ |-> [terminated |-> @[k].terminated + 1]]
                       ELSE @,
                   !.status = IF done /\ @ = "pending" THEN "resolved" ELSE @]]
        /\ settle(c, done, drawn)
        /\ UNCHANGED <<instanceVars, nextCall, lastError, partVars, workerCell>>

\* the failed task counted like a composited one
WorkerErrorCounted(c, job) ==
    LET call == calls[c]
        done == call.resolvedTasks + 1 = Len(call.outerValues)
    IN  /\ job \in call.jobs
        /\ calls' = [calls EXCEPT ![c] =
               [nextQueue([call EXCEPT !.jobs = @ \ {job}], job.innerWorker)
                   EXCEPT !.failed = TRUE,
                          !.resolvedTasks = @ + 1,
                          !.status = IF done /\ @ = "pending" THEN "resolved"
                                     ELSE @]]
        /\ UNCHANGED <<instanceVars, canvas, nextCall, lastError, partVars,
                       outVars, workerCell>>

\* the next task given to the worker while its job is still held
WorkerErrorKeepsJob(c, job) ==
    LET call == calls[c]
    IN  /\ job \in call.jobs
        /\ calls' = [calls EXCEPT ![c] =
               [nextQueue(call, job.innerWorker) EXCEPT !.failed = TRUE]]
        /\ UNCHANGED <<instanceVars, canvas, nextCall, lastError, partVars,
                       outVars, workerCell>>

\* index.js:279-282  the worker raises an error
WorkerError(c, job) ==
    LET call == calls[c]
    IN  /\ job \in call.jobs
        /\ calls' = [calls EXCEPT ![c] =
               [nextQueue([call EXCEPT !.jobs = @ \ {job}], job.innerWorker)
                   EXCEPT !.failed = TRUE]]
        /\ UNCHANGED <<instanceVars, canvas, nextCall, lastError, partVars,
                       outVars, workerCell>>

\* index.js:359-366  dispose(): it returns at once on a disposed instance, and
\* it never throws.  The element and the canvas it lets go of stay with the
\* closures of the calls still running.
Dispose ==
    /\ IF isDisposed THEN UNCHANGED isDisposed ELSE isDisposed' = TRUE
    /\ output' = [method |-> "dispose", call |-> 0, error |-> NoError,
                  raster |-> << >>]
    /\ UNCHANGED <<imageElement, width, height, maxWorkers, canvas, calls,
                   nextCall, lastError, partVars, chains, workerCell>>

\* index.js:316-354  toCanvas(), toBlob(), toDataURL() or toArrayBuffer() called
\* on the instance
Output(method) ==
    /\ output' = outcome(method, 0, canvas)
    /\ UNCHANGED <<instanceVars, canvas, calls, nextCall, lastError, partVars,
                   chains, workerCell>>

\* index.js:152-172  p.toBlob() and the like on the promise p of call c: the
\* method awaits p
Chain(c, method) ==
    /\ Started(calls[c])
    /\ chains[c] = NoMethod
    /\ chains' = [chains EXCEPT ![c] = method]
    /\ UNCHANGED <<instanceVars, canvas, calls, nextCall, lastError, partVars,
                   output, workerCell>>

\* index.js:152-172  a method chained to a promise that was fulfilled before:
\* it goes on when the code that chained it has run to its end
ChainedRead(c) ==
    /\ calls[c].status = "resolved"
    /\ chains[c] # NoMethod
    /\ settle(c, TRUE, canvas)
    /\ UNCHANGED <<instanceVars, canvas, calls, nextCall, lastError, partVars,
                   workerCell>>

Init ==
    /\ width \in 1..MaxDim
    /\ height \in 1..MaxDim
    /\ imageElement = Solid(width, height)
    /\ maxWorkers \in {resolveMaxWorkers(o, h) : o \in WorkerOptions, h \in HardwareHints}
    /\ isDisposed = FALSE
    /\ canvas = sizedCanvas(0, 0)
    /\ calls = [c \in 1..MaxCalls |-> UnusedCall]
    /\ nextCall = 1
    /\ lastError = NoError
    /\ pDim = 1 /\ pCells = 1 /\ pSections = << >> /\ pBlocks = << >>
    /\ chains = [c \in DOMAIN calls |-> NoMethod]
    /\ output = NoOutput
    /\ workerCell = NoCell

\* (grayscale only changes what the worker paints: it is varied in RasterSpec)
Next ==
    \/ \E x \in Args, y \in Args : Pixelate(x, y, FALSE)
    \/ \E c \in DOMAIN calls : \E crop \in calls[c].crops : CropDone(c, crop)
    \/ \E c \in DOMAIN calls : \E crop \in calls[c].crops : CropFailed(c, crop)
    \/ \E c \in DOMAIN calls : \E job \in calls[c].jobs : WorkerMessage(c, job)
    \/ \E c \in DOMAIN calls : \E job \in calls[c].jobs : WorkerError(c, job)
    \/ Dispose

Spec == Init /\ [][Next]_vars

\* every createImageBitmap promise is settled in the end, and every worker
\* that holds a job answers it in the end with a message or an error; the
\* event loop then runs the callback
Fairness ==
    \A c \in 1..MaxCalls :
        /\ WF_vars(\E crop \in calls[c].crops :
                      CropDone(c, crop) \/ CropFailed(c, crop))
        /\ WF_vars(\E job \in calls[c].jobs :
                      WorkerMessage(c, job) \/ WorkerError(c, job))

\* FairSpec: the instances of Spec, called with CellCounts, under Fairness
FairNext ==
    \/ \E x \in CellCounts(width), y \in CellCounts(height) :
          Pixelate(x, y, FALSE)
    \/ \E c \in DOMAIN calls : \E crop \in calls[c].crops : CropDone(c, crop)
    \/ \E c \in DOMAIN calls : \E crop \in calls[c].crops : CropFailed(c, crop)
    \/ \E c \in DOMAIN calls : \E job \in calls[c].jobs : WorkerMessage(c, job)
    \/ \E c \in DOMAIN calls : \E job \in calls[c].jobs : WorkerError(c, job)
    \/ Dispose

FairSpec == Init /\ [][FairNext]_vars /\ Fairness

(***************************************************************************)
(* GridSpec: the synchronous part of pixelate on every source size up to   *)
(* MaxGridDim: validation, partition, task queue and first dispatch.       *)
(***************************************************************************)
GridInit ==
    /\ width \in 1..MaxGridDim
    /\ height \in 1..MaxGridDim
    /\ imageElement = Solid(width, height)
    /\ maxWorkers \in {resolveMaxWorkers(o, 0) : o \in WorkerOptions \ {2}}
    /\ isDisposed = FALSE
    /\ canvas = sizedCanvas(0, 0)
    /\ calls = [c \in 1..MaxCalls |-> UnusedCall]
    /\ nextCall = 1
    /\ lastError = NoError
    /\ pDim = 1 /\ pCells = 1 /\ pSections = << >> /\ pBlocks = << >>
    /\ chains = [c \in DOMAIN calls |-> NoMethod]
    /\ output = NoOutput
    /\ workerCell = NoCell

GridNext == \E x \in Args, y \in Args : Pixelate(x, y, FALSE)

GridSpec == GridInit /\ [][GridNext]_vars

(***************************************************************************)
(* RasterSpec: every source image over Palette up to MaxRasterDim, and a   *)
(* caller that awaits each pixelate call before it makes the next.         *)
(***************************************************************************)
RasterInit ==
    /\ width \in 1..MaxRasterDim
    /\ height \in 1..MaxRasterDim
    /\ imageElement \in [Pixels(width, height) -> Palette]
    /\ maxWorkers \in {resolveMaxWorkers(o, 0) : o \in WorkerOptions \ {0}}
    /\ isDisposed = FALSE
    /\ canvas = sizedCanvas(0, 0)
    /\ calls = [c \in 1..MaxRasterCalls |-> UnusedCall]
    /\ nextCall = 1
    /\ lastError = NoError
    /\ pDim = 1 /\ pCells = 1 /\ pSections = << >> /\ pBlocks = << >>
    /\ chains = [c \in DOMAIN calls |-> NoMethod]
    /\ output = NoOutput
    /\ workerCell = NoCell

\* await p.pixelate(...): the caller goes on when the promise has settled
AwaitedPixelate(xPixels, yPixels, grayscale) ==
    /\ \A c \in DOMAIN calls : calls[c].status # "pending"
    /\ Pixelate(xPixels, yPixels, grayscale)

RasterNext ==
    \/ \E x \in CellCounts(width), y \in CellCounts(height), g \in BOOLEAN :
          AwaitedPixelate(x, y, g)
    \/ \E c \in DOMAIN calls : \E crop \in calls[c].crops : CropDone(c, crop)
    \/ \E c \in DOMAIN calls : \E crop \in calls[c].crops : CropFailed(c, crop)
    \/ \E c \in DOMAIN calls : \E job \in calls[c].jobs : WorkerMessage(c, job)
    \/ \E c \in DOMAIN calls : \E job \in calls[c].jobs : WorkerError(c, job)

RasterSpec == RasterInit /\ [][RasterNext]_vars

(***************************************************************************)
(* LifeSpec: the instances of Spec with a caller that also calls the       *)
(* output methods on the instance, at any time, before and after dispose().*)
(***************************************************************************)
LifeNext ==
    \/ \E x \in Args, y \in Args : Pixelate(x, y, FALSE)
    \/ \E method \in Methods : Output(method)
    \/ \E c \in DOMAIN calls : \E crop \in calls[c].crops : CropDone(c, crop)
    \/ \E c \in DOMAIN calls : \E crop \in calls[c].crops : CropFailed(c, crop)
    \/ \E c \in DOMAIN calls : \E job \in calls[c].jobs : WorkerMessage(c, job)
    \/ \E c \in DOMAIN calls : \E job \in calls[c].jobs : WorkerError(c, job)
    \/ Dispose

LifeSpec == Init /\ [][LifeNext]_vars

(***************************************************************************)
(* OutputSpec: pixelate calls that may overlap, a caller that chains an    *)
(* output method to the promise of a call (one method at a time), and      *)
(* dispose().                                                              *)
(***************************************************************************)
OutputInit ==
    /\ width \in 1..MaxOutDim
    /\ height \in 1..MaxOutDim
    /\ imageElement = Solid(width, height)
    /\ maxWorkers \in {resolveMaxWorkers(o, 0) : o \in WorkerOptions \ {0}}
    /\ isDisposed = FALSE
    /\ canvas = sizedCanvas(0, 0)
    /\ calls = [c \in 1..MaxOutCalls |-> UnusedCall]
    /\ nextCall = 1
    /\ lastError = NoError
    /\ pDim = 1 /\ pCells = 1 /\ pSections = << >> /\ pBlocks = << >>
    /\ chains = [c \in DOMAIN calls |-> NoMethod]
    /\ output = NoOutput
    /\ workerCell = NoCell

\* a chained method is about to go on: the promise it awaits is fulfilled.
\* It runs before the event loop takes the next message of a worker or the
\* next settled createImageBitmap promise.
ContinuationDue ==
    \E c \in DOMAIN calls : calls[c].status = "resolved" /\ chains[c] # NoMethod

OutputNext ==
    \/ \E x \in CellCounts(width), y \in CellCounts(height) :
          Pixelate(x, y, FALSE)
    \/ /\ \A c \in DOMAIN calls : chains[c] = NoMethod
       /\ \E c \in DOMAIN calls, method \in Methods : Chain(c, method)
    \/ \E c \in DOMAIN calls : ChainedRead(c)
    \/ /\ ~ContinuationDue
       /\ \E c \in DOMAIN calls : \E crop \in calls[c].crops : CropDone(c, crop)
    \/ /\ ~ContinuationDue
       /\ \E c \in DOMAIN calls : \E crop \in calls[c].crops : CropFailed(c, crop)
    \/ /\ ~ContinuationDue
       /\ \E c \in DOMAIN calls : \E job \in calls[c].jobs : WorkerMessage(c, job)
    \/ /\ ~ContinuationDue
       /\ \E c \in DOMAIN calls : \E job \in calls[c].jobs : WorkerError(c, job)
    \/ Dispose

OutputSpec == OutputInit /\ [][OutputNext]_vars

\* every stripe task of a call that has not completed
SeqRange(seq) == {seq[k] : k \in DOMAIN seq}
OpenTasks(call) ==
    SeqRange(call.tasks) \cup {crop.task : crop \in call.crops}
                        \cup {job.task : job \in call.jobs}
\* a call none of whose tasks has completed or failed yet
Untouched(call) ==
    Started(call) /\ call.resolvedTasks = 0 /\ ~call.failed
Inside(r, w, h) ==
    /\ 0 <= r.x /\ r.x + r.w <= w
    /\ 0 <= r.y /\ r.y + r.h <= h

\* C3: the stripes of a call, at offsets that are the prefix sums of the outer
\* partition, and the cells of all stripes each cover every pixel of the
\* width x height raster exactly once, and nothing lies outside the raster.
StripesAndCellsTile ==
    \A c \in 1..MaxCalls :
        Untouched(calls[c]) =>
            LET call    == calls[c]
                byRows  == call.shouldAllocateByRows
                outer   == call.outerValues
                stripes == OpenTasks(call)
                cellsOf(t) == destCells(t, call.innerValues, byRows)
            IN  /\ stripes = {[outerValue |-> outer[k],
                               outerDimension |-> Sum(SubSeq(outer, 1, k - 1))] :
                                  k \in DOMAIN outer}
                /\ Sum(outer) = IF byRows THEN height ELSE width
                /\ \A t \in stripes :
                      /\ Inside(sliceRect(t, byRows), width, height)
                      /\ \A k \in DOMAIN cellsOf(t) :
                            Inside(cellsOf(t)[k], width, height)
                /\ \A p \in Pixels(width, height) :
                      /\ Cardinality({t \in stripes :
                              InRect(p, sliceRect(t, byRows))}) = 1
                      /\ Cardinality({tk \in stripes \X (1..Len(call.innerValues)) :
                              InRect(p, cellsOf(tk[1])[tk[2]])}) = 1

\* a call on a 4 x 3 source into 3 x 2 cells: both partitions are uneven
StripesAndCellsTileWitness ==
    /\ width = 4 /\ height = 3
    /\ calls[1].innerValues = <<2, 1, 1>> /\ calls[1].outerValues = <<2, 1>>
    /\ Untouched(calls[1])
    /\ calls[1].xPixels = 3 /\ calls[1].yPixels = 2
    /\ Cardinality(OpenTasks(calls[1])) = 2

BadCount(v) == ~IsInteger(v) \/ v.num <= 0
Exceeds(v, dimension) == v.num > dimension * v.den
PixelateStep == \E x \in Args, y \in Args : Pixelate(x, y, FALSE)

\* C5 as claimed: pixelate throws the invalid-dimension error whenever
\* xCells or yCells is zero, negative or not an integer.
InvalidAlwaysRejected ==
    [][\A x \in Args, y \in Args :
          ((BadCount(x) \/ BadCount(y)) /\ Pixelate(x, y, FALSE))
              => lastError' = InvalidDimensionError]_vars

\* C5 as amended: on an instance that has not been disposed, pixelate throws
\* the invalid-dimension error whenever xCells or yCells is zero, negative or
\* not an integer, whatever the other argument is.
InvalidRejectedUnlessDisposed ==
    [][\A x \in Args, y \in Args :
          (~isDisposed /\ (BadCount(x) \/ BadCount(y)) /\ Pixelate(x, y, FALSE))
              => lastError' = InvalidDimensionError]_vars

\* an invalid call was rejected while a pixelation was already on the canvas
InvalidRejectedWitness ==
    /\ lastError = InvalidDimensionError
    /\ ~isDisposed
    /\ calls[1].status = "resolved"

\* C6 as claimed: pixelate throws the dimension-exceeds-source error whenever
\* xCells > width or yCells > height.
ExceedingAlwaysRejected ==
    [][\A x \in Args, y \in Args :
          ((Exceeds(x, width) \/ Exceeds(y, height)) /\ Pixelate(x, y, FALSE))
              => lastError' = DimensionExceedsError]_vars

\* C6 as amended: on an instance that has not been disposed, when xCells and
\* yCells are both positive integers and xCells > width or yCells > height,
\* pixelate throws the dimension-exceeds-source error.
ExceedingRejectedWhenValid ==
    [][\A x \in Args, y \in Args :
          (/\ ~isDisposed
           /\ ~BadCount(x) /\ ~BadCount(y)
           /\ (Exceeds(x, width) \/ Exceeds(y, height))
           /\ Pixelate(x, y, FALSE))
              => lastError' = DimensionExceedsError]_vars

ExceedingRejectedWitness ==
    /\ lastError = DimensionExceedsError
    /\ ~isDisposed
    /\ calls[1].status = "pending"

\* C7: a pixelate call rejected for invalid or oversized cell counts queues no
\* task, creates no worker and leaves the canvas (size and contents) and the
\* instance as they were.
RejectedCallChangesNothing ==
    [][(PixelateStep /\ lastError' \in {InvalidDimensionError, DimensionExceedsError})
          => UNCHANGED <<canvas, calls, nextCall, instanceVars>>]_vars

\* a call was rejected after an earlier call had painted the canvas, which
\* still holds that pixelation
RejectedCallWitness ==
    /\ lastError \in {InvalidDimensionError, DimensionExceedsError}
    /\ calls[1].status = "resolved"
    /\ canvas.w = width /\ canvas.h = height
    /\ \A p \in DOMAIN canvas.px : canvas.px[p] # Blank

(***************************************************************************)
(* Failure of a stripe task (checked under Spec).                          *)
(***************************************************************************)
\* no callback of the call is outstanding: nothing of it will run again
Quiescent(call) == Started(call) /\ call.crops = {} /\ call.jobs = {}
Settled(call) == call.status \in {"resolved", "rejected"}

\* C8: when a stripe task of a call has failed (its crop, or its worker), the
\* call fails: once nothing of the call is outstanding its promise is rejected.
FailedTaskRejectsCall ==
    \A c \in 1..MaxCalls :
        (calls[c].failed /\ Quiescent(calls[c])) => calls[c].status = "rejected"

\* C9: when a call has ended, in success or in failure, every worker it
\* created has been terminated exactly once and none is alive.
WorkersTerminatedOnce ==
    \A c \in 1..MaxCalls :
        (Settled(calls[c]) \/ (calls[c].failed /\ Quiescent(calls[c]))) =>
            \A k \in DOMAIN calls[c].workerArray :
                calls[c].workerArray[k].terminated = 1

\* C10: once a stripe task of a call has failed, no further task of the call
\* is taken from the queue.
NoDispatchAfterFailure ==
    [][\A c \in 1..MaxCalls :
          calls'[c].failed => calls'[c].tasks = calls[c].tasks]_vars

(***************************************************************************)
(* Completion of a call (checked under Spec and FairSpec).                 *)
(***************************************************************************)
Painted(cv) == \A p \in DOMAIN cv.px : cv.px[p] # Blank

\* C11: a call one of whose stripe tasks has failed is never resolved, and a
\* call is never resolved while a stripe of the grid has not been composited:
\* no stripe of a resolved call is queued, being cropped or being processed,
\* and unless a later call has cleared the canvas since, no pixel is blank
\* (the source is opaque, so a composited stripe leaves no blank pixel).
FailedCallNeverResolves ==
    \A c \in 1..MaxCalls :
        /\ calls[c].failed => calls[c].status # "resolved"
        /\ calls[c].status = "resolved" =>
              /\ OpenTasks(calls[c]) = {}
              /\ nextCall = c + 1 =>
                    (canvas.w = width /\ canvas.h = height /\ Painted(canvas))

\* a task has failed after another stripe had been composited; nothing of
\* the call is outstanding and the call is still pending
FailedCallNeverResolvesWitness ==
    /\ calls[1].failed /\ Quiescent(calls[1])
    /\ calls[1].resolvedTasks > 0
    /\ calls[1].tasks = << >>
    /\ calls[1].status = "pending"
    /\ ~Painted(canvas)

\* C12: the step that resolves a call is the composition of its last stripe:
\* after it the count of composited stripes equals the length of the outer
\* partition, no task is queued, being cropped or being processed, and the
\* canvas is painted all over unless a later call has cleared it; as long
\* as fewer stripes have been composited the call is not resolved, whichever
\* stripe lands first.
ResolvesAfterLastStripe ==
    [][\A c \in 1..MaxCalls :
          /\ (calls[c].status # "resolved" /\ calls'[c].status = "resolved") =>
                /\ Cardinality(calls[c].jobs \ calls'[c].jobs) = 1
                /\ calls[c].resolvedTasks = Len(calls[c].outerValues) - 1
                /\ calls'[c].resolvedTasks = Len(calls[c].outerValues)
                /\ OpenTasks(calls'[c]) = {}
                /\ nextCall = c + 1 => Painted(canvas')
          /\ calls'[c].resolvedTasks < Len(calls'[c].outerValues) =>
                calls'[c].status # "resolved"]_vars

\* a call of three stripes worked by two workers has resolved
ResolvesAfterLastStripeWitness ==
    /\ calls[1].status = "resolved"
    /\ Len(calls[1].outerValues) = 3
    /\ Len(calls[1].workerArray) = 2
    /\ calls[1].resolvedTasks = 3

\* C13: under Fairness, a pending call none of whose crops and workers fails
\* is resolved in the end, with every stripe task taken from the queue and
\* composited.
FailureFreeCallResolves ==
    \A c \in 1..MaxCalls :
        (calls[c].status = "pending") ~>
            \/ calls[c].failed
            \/ /\ calls[c].status = "resolved"
               /\ calls[c].tasks = << >>
               /\ OpenTasks(calls[c]) = {}
               /\ calls[c].resolvedTasks = Len(calls[c].outerValues)

\* a call of three stripes has resolved with a single worker, which took
\* two tasks from the queue after the first dispatch
FailureFreeCallResolvesWitness ==
    /\ calls[1].status = "resolved" /\ ~calls[1].failed
    /\ Len(calls[1].outerValues) = 3
    /\ maxWorkers = 1
    /\ Len(calls[1].workerArray) = 1
    /\ Painted(canvas)

InFlight(call) == Cardinality(call.crops) + Cardinality(call.jobs)

\* C14: at every moment of a call the number of workers created, and the
\* number of stripe tasks in flight (being cropped or processed), is at most
\* min(concurrencyLimit, stripeCount); the limit is the maxWorkers option
\* when given, otherwise the hardware-concurrency hint, otherwise 4.
PoolIsBounded ==
    /\ \A c \in 1..MaxCalls :
          Started(calls[c]) =>
              LET limit == Min(maxWorkers, Len(calls[c].outerValues))
              IN  /\ Len(calls[c].workerArray) <= limit
                  /\ InFlight(calls[c]) <= limit
    /\ \A o \in WorkerOptions, h \in HardwareHints :
          resolveMaxWorkers(o, h) = IF o # 0 THEN o ELSE IF h # 0 THEN h ELSE 4
    /\ \E o \in WorkerOptions, h \in HardwareHints :
          maxWorkers = resolveMaxWorkers(o, h)

\* three stripes and a limit of two: two workers exist, two tasks are in
\* flight and the third waits in the queue
PoolIsBoundedWitness ==
    /\ maxWorkers = 2
    /\ Len(calls[1].outerValues) = 3
    /\ Len(calls[1].workerArray) = 2
    /\ InFlight(calls[1]) = 2
    /\ Len(calls[1].tasks) = 1

\* C15: a worker that has finished a task (its job is gone) is itself given
\* the task at the head of the queue, or nothing when the queue is empty, and
\* no worker is created in that step; a worker is created only for a task pulled by the first
\* dispatch; a call resolved without a failure has created exactly
\* min(concurrencyLimit, taskCount) workers.
WorkersAreReused ==
    [][\A c \in 1..MaxCalls :
          /\ \A job \in calls[c].jobs \ calls'[c].jobs :
                /\ Len(calls'[c].workerArray) = Len(calls[c].workerArray)
                /\ IF calls[c].tasks # << >>
                   THEN /\ calls'[c].tasks = Tail(calls[c].tasks)
                        /\ calls'[c].crops = calls[c].crops \cup
                               {[task |-> Head(calls[c].tasks),
                                 innerWorker |-> job.innerWorker]}
                   ELSE /\ calls'[c].tasks = << >>
                        /\ calls'[c].crops = calls[c].crops
          /\ Len(calls'[c].workerArray) > Len(calls[c].workerArray) =>
                /\ Len(calls'[c].workerArray) = Len(calls[c].workerArray) + 1
                /\ \E crop \in calls[c].crops \ calls'[c].crops :
                      /\ crop.innerWorker = 0
                      /\ calls'[c].jobs = calls[c].jobs \cup
                             {[task |-> crop.task,
                               innerWorker |-> Len(calls'[c].workerArray)]}
          /\ \A crop \in calls'[c].crops \ calls[c].crops :
                crop.innerWorker = 0 => ~Started(calls[c])
          /\ (calls'[c].status = "resolved" /\ ~calls'[c].failed) =>
                Len(calls'[c].workerArray)
                    = Min(maxWorkers, Len(calls'[c].outerValues))]_vars

\* three stripes and a limit of two: the call has resolved with two workers,
\* one of which processed two stripes
WorkersAreReusedWitness ==
    /\ calls[1].status = "resolved" /\ ~calls[1].failed
    /\ maxWorkers = 2
    /\ Len(calls[1].outerValues) = 3
    /\ Len(calls[1].workerArray) = 2
    /\ calls[1].resolvedTasks = 3
    /\ \A k \in DOMAIN calls[1].workerArray :
          calls[1].workerArray[k].terminated = 1

(***************************************************************************)
(* The raster of a completed call (checked under RasterSpec).              *)
(***************************************************************************)
\* call c has resolved and no later call has been accepted: the canvas is
\* what the caller of c gets
Completed(c) == calls[c].status = "resolved" /\ nextCall = c + 1

\* all stripe tasks of a call, in the order of the queue
Stripes(call) == buildTasks(call.outerValues, 0)

\* the results of the given stripes composited onto cv one after another
RECURSIVE composite(_, _, _)
composite(cv, call, order) ==
    IF order = << >> THEN cv
    ELSE LET at == drawOrigin(Head(order), call.shouldAllocateByRows)
         IN  composite(drawImage(cv, taskResult(call, Head(order)), at[1], at[2]),
                       call, Tail(order))

\* every order in which the stripes of a call can land
Orders(call) ==
    LET n == Len(call.outerValues)
    IN  {[k \in 1..n |-> Stripes(call)[f[k]]] :
            f \in {g \in [1..n -> 1..n] : \A i, j \in 1..n : g[i] = g[j] => i = j}}

Uniform(cv) == \A p, q \in DOMAIN cv.px : cv.px[p] = cv.px[q]

\* C16: a call run with concurrencyLimit = 1 and a call run with
\* concurrencyLimit = stripeCount on the same source with the same (xCells,
\* yCells, grayscale) end with the same raster: whatever the interleaving,
\* either ends with the raster of the stripes composited one by one in
\* queue order, which is the only run there is under the limit 1.
LimitIndependentRaster ==
    \A c \in 1..MaxRasterCalls :
        (Completed(c) /\ maxWorkers \in {1, Len(calls[c].outerValues)}) =>
            canvas = composite(sizedCanvas(width, height), calls[c],
                               Stripes(calls[c]))

\* a call of two stripes has completed under the limit 2, with two workers,
\* on a source of four different colours
LimitIndependentRasterWitness ==
    /\ Completed(1)
    /\ maxWorkers = 2 /\ Len(calls[1].outerValues) = 2
    /\ Len(calls[1].workerArray) = 2
    /\ width = 2 /\ height = 2
    /\ \A p, q \in DOMAIN imageElement :
          p # q => imageElement[p] # imageElement[q]
    /\ ~calls[1].grayscale

\* C17: the raster of a completed call is the same for every order in which
\* its stripes land: it is the composition of the stripes in any permutation.
OrderIndependentRaster ==
    \A c \in 1..MaxRasterCalls :
        Completed(c) =>
            \A order \in Orders(calls[c]) :
                canvas = composite(sizedCanvas(width, height), calls[c], order)

\* a call of two stripes has completed whose stripes show different colours
OrderIndependentRasterWitness ==
    /\ Completed(1)
    /\ Cardinality(Orders(calls[1])) = 2
    /\ calls[1].xPixels = 2 /\ calls[1].yPixels = 2
    /\ ~Uniform(canvas)
    /\ canvas.px[<<0, 0>>] # canvas.px[<<1, 0>>]
    /\ canvas.px[<<0, 0>>] # canvas.px[<<0, 1>>]

\* the raster of pixelate(xPixels, yPixels, { grayscale }) on a canvas that
\* was never used
pixelation(xPixels, yPixels, grayscale) ==
    LET call == newCall(xPixels, yPixels, grayscale)
    IN  composite(sizedCanvas(width, height), call, Stripes(call))

\* C18: when the calls on an instance are awaited one after another, the
\* canvas after a call is a function of the source and of that call's
\* (xCells, yCells, grayscale) alone, whatever calls went before; so a call
\* repeated with the same arguments gives the same raster again.
RasterOfLastCallOnly ==
    \A c \in 1..MaxRasterCalls :
        Completed(c) =>
            canvas = pixelation(calls[c].xPixels, calls[c].yPixels,
                                calls[c].grayscale)

\* a second call has completed after a first one that had painted pixels
\* which the second call leaves transparent
RasterOfLastCallOnlyWitness ==
    /\ Completed(2) /\ calls[1].status = "resolved"
    /\ LET before == pixelation(calls[1].xPixels, calls[1].yPixels,
                                calls[1].grayscale)
       IN  \E p \in DOMAIN canvas.px :
              before.px[p] # Blank /\ canvas.px[p] = Blank

\* the cells of a call on the canvas
Cells(call) ==
    UNION {SeqRange(destCells(t, call.innerValues, call.shouldAllocateByRows)) :
              t \in SeqRange(Stripes(call))}

\* per channel, the floor of the arithmetic mean of the source over a cell
CellMean(cell) ==
    LET inside == {p \in DOMAIN imageElement : InRect(p, cell)}
        RECURSIVE total(_, _)
        total(ps, ch) ==
            IF ps = {} THEN 0
            ELSE LET p == CHOOSE q \in ps : TRUE
                 IN  imageElement[p][ch] + total(ps \ {p}, ch)
    IN  [ch \in 1..4 |-> total(inside, ch) \div Cardinality(inside)]

\* C19: after a completed call without grayscale, every pixel of a cell has
\* the cell's averaged source colour: per channel (R, G, B and A) the floor
\* of the arithmetic mean over the source pixels of the cell.
CellsShowTheirMean ==
    \A c \in 1..MaxRasterCalls :
        (Completed(c) /\ ~calls[c].grayscale) =>
            \A cell \in Cells(calls[c]) :
                \A p \in DOMAIN canvas.px :
                    InRect(p, cell) => canvas.px[p] = CellMean(cell)

\* C20: after a completed call with grayscale, every pixel of the canvas has
\* R = G = B.
GrayscaleIsGray ==
    \A c \in 1..MaxRasterCalls :
        (Completed(c) /\ calls[c].grayscale) =>
            \A p \in DOMAIN canvas.px :
                canvas.px[p][1] = canvas.px[p][2] /\ canvas.px[p][2] = canvas.px[p][3]

(***************************************************************************)
(* PartSpec: the partition of every dimension up to MaxPartDim into every  *)
(* admissible number of cells.                                             *)
(***************************************************************************)
IdleInstance ==
    /\ width = 1 /\ height = 1 /\ maxWorkers = FallbackWorkers
    /\ imageElement = Solid(width, height)
    /\ isDisposed = FALSE
    /\ canvas = sizedCanvas(0, 0)
    /\ calls = [c \in 1..MaxCalls |-> UnusedCall]
    /\ nextCall = 1
    /\ lastError = NoError
    /\ chains = [c \in DOMAIN calls |-> NoMethod]
    /\ output = NoOutput

PartInit ==
    /\ IdleInstance
    /\ workerCell = NoCell
    /\ pDim \in 1..MaxPartDim
    /\ pCells \in 1..pDim
    /\ pSections = << >>
    /\ pBlocks = << >>

\* index.js:193-214 run for one axis
Partition ==
    /\ pSections = << >>
    /\ pSections' = individualSections(pDim, pCells)
    /\ UNCHANGED <<instanceVars, canvas, calls, nextCall, lastError, pDim, pCells,
                   pBlocks, outVars, workerCell>>

\* part_001:17-25 run for one axis: the blocks [x, x + w) of the single-pass
\* worker
SinglePass ==
    /\ pBlocks = << >>
    /\ pBlocks' = blocks(pDim, pCells)
    /\ UNCHANGED <<instanceVars, canvas, calls, nextCall, lastError, pDim, pCells,
                   pSections, outVars, workerCell>>

PartNext == Partition \/ SinglePass

PartSpec == PartInit /\ [][PartNext]_vars

Partitioned == pSections # << >>
Enlarged(sections, base) == {j \in DOMAIN sections : sections[j] = base + 1}

\* C1: the partition of D into N cells (1 <= N <= D) has N entries, all
\* positive, each floor(D/N) or floor(D/N) + 1, and they sum to D.
PartitionShape ==
    Partitioned =>
        /\ Len(pSections) = pCells
        /\ \A j \in DOMAIN pSections :
              /\ pSections[j] > 0
              /\ pSections[j] \in {pDim \div pCells, pDim \div pCells + 1}
        /\ Sum(pSections) = pDim

\* a partition whose enlarged entries are placed by a product that the
\* double arithmetic rounds below the exact value (52 into 30)
PartitionShapeWitness ==
    /\ Partitioned /\ pDim = 52 /\ pCells = 30
    /\ incrementIndex(11, 30, 22) # (11 * 30) \div 22

\* C2: exactly D mod N entries are floor(D/N) + 1 and the others are
\* floor(D/N); with D mod N = 0 all entries are equal.
PartitionRemainder ==
    Partitioned =>
        LET base == pDim \div pCells
            big  == Enlarged(pSections, base)
        IN  /\ Cardinality(big) = pDim % pCells
            /\ \A j \in DOMAIN pSections \ big : pSections[j] = base
            /\ pDim % pCells = 0 =>
                  \A j, k \in DOMAIN pSections : pSections[j] = pSections[k]

PartitionRemainderWitness ==
    /\ Partitioned /\ pCells > 2 /\ pDim % pCells > 1
    /\ Cardinality(Enlarged(pSections, pDim \div pCells)) > 1

\* the workers of a call that dispose() would have to terminate
Running(call) ==
    {k \in DOMAIN call.workerArray : call.workerArray[k].terminated = 0}

\* C24: no executor is left running for a disposed instance: when dispose()
\* is called while a call is in flight, the workers of that call are
\* terminated as part of the disposal.
NoExecutorOutlivesDisposal ==
    isDisposed => \A c \in DOMAIN calls : Running(calls[c]) = {}

\* the tasks of the records held in a set of crops or jobs
TasksOf(records) == {record.task : record \in records}

\* every open task of a call is in one place only, it is one of the tasks
\* built at the start, and a task is missing only if it was composited or failed
TasksAccounted(call) ==
    LET open == OpenTasks(call)
    IN  /\ Cardinality(open) = Len(call.tasks) + Cardinality(call.crops)
                                               + Cardinality(call.jobs)
        /\ open \subseteq SeqRange(buildTasks(call.outerValues, 0))
        /\ Len(buildTasks(call.outerValues, 0)) = Len(call.outerValues)
        /\ IF call.failed
           THEN Cardinality(open) + call.resolvedTasks < Len(call.outerValues)
           ELSE Cardinality(open) + call.resolvedTasks = Len(call.outerValues)
        /\ call.status = "resolved" =>
               (open = {} /\ call.resolvedTasks = Len(call.outerValues))

\* a step of a running call takes tasks from the head of the queue only, hands
\* a task from the queue to a crop and from a crop to a job, brings no task
\* back, and composites one task that then is gone
TasksMoveOnce(before, after) ==
    /\ after.tasks = before.tasks \/ after.tasks = Tail(before.tasks)
    /\ OpenTasks(after) \subseteq OpenTasks(before)
    /\ TasksOf(after.crops) \subseteq
           TasksOf(before.crops) \cup (SeqRange(before.tasks) \ SeqRange(after.tasks))
    /\ TasksOf(after.jobs) \subseteq TasksOf(before.jobs) \cup TasksOf(before.crops)
    /\ after.resolvedTasks \in {before.resolvedTasks, before.resolvedTasks + 1}
    /\ after.resolvedTasks = before.resolvedTasks + 1 =>
           \E job \in before.jobs \ after.jobs :
              /\ before.jobs \ after.jobs = {job}
              /\ job.task \notin OpenTasks(after)
    /\ (after.failed /\ ~before.failed) =>
           OpenTasks(after) # OpenTasks(before)

\* C27: every stripe task is created once, dequeued once and handed to one
\* executor; no task is dispatched twice, none is passed over in the queue, a
\* failed task never comes back, and in a call that has resolved every
\* stripe was composited exactly once.
TasksDispatchedOnce ==
    [][\A c \in DOMAIN calls :
          /\ Started(calls'[c]) => TasksAccounted(calls'[c])
          /\ Started(calls[c]) => TasksMoveOnce(calls[c], calls'[c])]_vars

TasksDispatchedOnceWitness ==
    \E c \in DOMAIN calls :
        /\ calls[c].status = "resolved"
        /\ Len(calls[c].outerValues) >= 2
        /\ calls[c].resolvedTasks = Len(calls[c].outerValues)
        /\ Len(calls[c].workerArray) = 1

\* what worker k of a call holds: tasks on their way to it and tasks it works on
HeldBy(call, k) ==
    {crop \in call.crops : crop.innerWorker = k} \cup
    {job \in call.jobs : job.innerWorker = k}

\* C28: every executor has at most one stripe task in flight; it is given its
\* next task only in the step that handles the reply to its previous one,
\* and the stripe composited in that step is the result of that very task,
\* drawn at that task's offset.
OneTaskPerExecutor ==
    [][\A c \in DOMAIN calls :
          /\ \A k \in DOMAIN calls'[c].workerArray :
                 Cardinality(HeldBy(calls'[c], k)) <= 1
          /\ Started(calls[c]) =>
                 \A crop \in calls'[c].crops \ calls[c].crops :
                     /\ crop.innerWorker # 0
                     /\ \E job \in calls[c].jobs \ calls'[c].jobs :
                            job.innerWorker = crop.innerWorker
          /\ calls'[c].resolvedTasks = calls[c].resolvedTasks + 1 =>
                 \A job \in calls[c].jobs \ calls'[c].jobs :
                     LET at == drawOrigin(job.task, calls[c].shouldAllocateByRows)
                     IN  canvas' = drawImage(canvas, taskResult(calls[c], job.task),
                                             at[1], at[2])]_vars

OneTaskPerExecutorWitness ==
    \E c \in DOMAIN calls :
        /\ calls[c].resolvedTasks >= 1
        /\ \E k \in DOMAIN calls[c].workerArray :
               Cardinality(HeldBy(calls[c], k)) = 1

\* C23: disposal is absorbing.  On a disposed instance every call of
\* pixelate, whatever its arguments, and of toCanvas, toBlob, toDataURL and
\* toArrayBuffer fails with the error that names the disposed instance,
\* accepts no call, dispatches nothing and leaves the canvas alone; a further
\* dispose() throws nothing and changes nothing.
DisposalIsAbsorbing ==
    [][isDisposed =>
         /\ isDisposed'
         /\ nextCall' = nextCall
         /\ lastError' # lastError =>
                /\ lastError' = DisposedError
                /\ UNCHANGED <<canvas, calls, outVars>>
         /\ output' # output =>
                /\ output'.method \in Methods \cup {"dispose"}
                /\ output'.method \in Methods =>
                       output'.error = DisposedError /\ output'.raster = << >>
                /\ output'.method = "dispose" => output'.error = NoError
                /\ UNCHANGED <<instanceVars, canvas, calls, nextCall, lastError,
                               chains>>
         /\ \A c \in DOMAIN calls :
                /\ Started(calls'[c]) = Started(calls[c])
                /\ OpenTasks(calls'[c]) \subseteq OpenTasks(calls[c])]_vars

DisposalIsAbsorbingWitness ==
    /\ isDisposed
    /\ lastError = DisposedError
    /\ output.method = "toArrayBuffer" /\ output.error = DisposedError
    /\ \E c \in DOMAIN calls : calls[c].status = "pending"

\* C25: a method chained to the promise of a call goes on only when all
\* stripes of that call have been composited, and what it then reads is a
\* completely painted canvas, never a partially filled one.
ChainedReadsWholeCanvas ==
    [][\A c \in DOMAIN calls :
          (chains[c] # NoMethod /\ chains'[c] = NoMethod) =>
              /\ calls'[c].status = "resolved"
              /\ calls'[c].resolvedTasks = Len(calls'[c].outerValues)
              /\ output'.call = c
              /\ output'.error = NoError =>
                     /\ output'.raster = canvas'.px
                     /\ canvas'.w = width /\ canvas'.h = height
                     /\ Painted(canvas')]_vars

(***************************************************************************)
(* SolidSpec: sources of one opaque colour: every size up to MaxDim, and   *)
(* the square of ScenarioDim pixels; the cell counts tried go up to        *)
(* MaxDim + 1 on either axis.                                              *)
(***************************************************************************)
SolidCounts(dimension) == {Num(n, 1) : n \in 1..Min(dimension, MaxDim + 1)}

SolidInit ==
    /\ \E size \in ((1..MaxDim) \X (1..MaxDim)) \cup
                     {<<ScenarioDim, ScenarioDim>>} :
          width = size[1] /\ height = size[2]
    /\ imageElement \in {[p \in Pixels(width, height) |-> colour] :
                             colour \in {Red, Teal}}
    /\ maxWorkers \in {resolveMaxWorkers(o, 0) : o \in WorkerOptions \ {0}}
    /\ isDisposed = FALSE
    /\ canvas = sizedCanvas(0, 0)
    /\ calls = [c \in 1..MaxCalls |-> UnusedCall]
    /\ nextCall = 1
    /\ lastError = NoError
    /\ pDim = 1 /\ pCells = 1 /\ pSections = << >> /\ pBlocks = << >>
    /\ chains = [c \in DOMAIN calls |-> NoMethod]
    /\ output = NoOutput
    /\ workerCell = NoCell

SolidNext ==
    \/ \E x \in SolidCounts(width), y \in SolidCounts(height) :
          Pixelate(x, y, FALSE)
    \/ \E c \in DOMAIN calls : \E crop \in calls[c].crops : CropDone(c, crop)
    \/ \E c \in DOMAIN calls : \E crop \in calls[c].crops : CropFailed(c, crop)
    \/ \E c \in DOMAIN calls : \E job \in calls[c].jobs : WorkerMessage(c, job)
    \/ \E c \in DOMAIN calls : \E job \in calls[c].jobs : WorkerError(c, job)

SolidSpec == SolidInit /\ [][SolidNext]_vars

\* C21: a source whose pixels all have one opaque colour, pixelated at any
\* valid grid without grayscale, gives a raster of the size of the source in
\* which every pixel has that colour; a 10x10 red source at (2, 2) gives the
\* four cells of 5x5 pixels, all red.
UniformStaysUniform ==
    \A c \in DOMAIN calls :
        (/\ Completed(c) /\ ~calls[c].grayscale
         /\ \E colour \in Palette :
               colour[4] = 255 /\ \A p \in DOMAIN imageElement :
                                     imageElement[p] = colour) =>
            /\ canvas.w = width /\ canvas.h = height
            /\ DOMAIN canvas.px = Pixels(width, height)
            /\ \A p \in Pixels(width, height) : canvas.px[p] = imageElement[p]
            /\ (/\ width = 10 /\ height = 10
                /\ calls[c].xPixels = 2 /\ calls[c].yPixels = 2) =>
                   /\ calls[c].outerValues = <<5, 5>>
                   /\ calls[c].innerValues = <<5, 5>>
                   /\ Cells(calls[c]) =
                         {Rect(x, y, 5, 5) : x \in {0, 5}, y \in {0, 5}}

UniformStaysUniformWitness ==
    /\ Completed(1)
    /\ width = 10 /\ height = 10
    /\ calls[1].xPixels = 2 /\ calls[1].yPixels = 2
    /\ \A p \in Pixels(10, 10) : imageElement[p] = Red /\ canvas.px[p] = Red

(***************************************************************************)
(* CellSpec: one cell in the worker, on its own: the pixels getImageData   *)
(* returned for it, their average and the fill colour made of it.          *)
(***************************************************************************)
Regions == UNION {[1..n -> Palette \cup {Dusk}] : n \in 1..MaxRegion}

CellInit ==
    /\ IdleInstance
    /\ pDim = 1 /\ pCells = 1 /\ pSections = << >> /\ pBlocks = << >>
    /\ workerCell \in {[NoCell EXCEPT !.rgbaData = data, !.grayscale = g] :
                          data \in Regions, g \in BOOLEAN}

\* innerWorker.js:55  const [r, g, b, a] = getSingleRGBA(imageData.data)
Average ==
    /\ workerCell.rgba = << >>
    /\ workerCell' = [workerCell EXCEPT !.rgba = getSingleRGBA(workerCell.rgbaData)]
    /\ UNCHANGED <<instanceVars, canvas, calls, nextCall, lastError, partVars,
                   outVars>>

\* innerWorker.js:57-63  ctx.fillStyle = ...
SetFillStyle ==
    /\ workerCell.rgba # << >>
    /\ workerCell.fillStyle = << >>
    /\ workerCell' = [workerCell EXCEPT
                         !.fillStyle = fillStyle(workerCell.rgba,
                                                 workerCell.grayscale)]
    /\ UNCHANGED <<instanceVars, canvas, calls, nextCall, lastError, partVars,
                   outVars>>

CellNext == Average \/ SetFillStyle

CellSpec == CellInit /\ [][CellNext]_vars

\* the sum of channel ch over the first k pixels of a region
RECURSIVE Total(_, _, _)
Total(data, ch, k) == IF k = 0 THEN 0 ELSE Total(data, ch, k - 1) + data[k][ch]

\* C29: for every non-empty region the averager returns, for each of R, G, B
\* and A on its own, the floor of the arithmetic mean of that channel over
\* the pixels of the region: an integer between the least and the greatest
\* value of the channel in the region, and so within 0..255.
AverageIsFlooredMean ==
    workerCell.rgba # << >> =>
        LET data == workerCell.rgbaData
            n    == Len(data)
        IN  /\ n >= 1
            /\ DOMAIN workerCell.rgba = 1..4
            /\ \A ch \in 1..4 :
                   LET mean == workerCell.rgba[ch]
                   IN  /\ mean \in 0..255
                       /\ mean * n <= Total(data, ch, n)
                       /\ Total(data, ch, n) < (mean + 1) * n
                       /\ \E k \in 1..n : data[k][ch] <= mean
                       /\ \E k \in 1..n : mean <= data[k][ch]

AverageIsFlooredMeanWitness ==
    /\ workerCell.rgba # << >>
    /\ Len(workerCell.rgbaData) = 3
    /\ \E ch \in 1..4 :
           /\ Total(workerCell.rgbaData, ch, 3) % 3 # 0
           /\ \A k \in 1..3 : workerCell.rgbaData[k][ch] # workerCell.rgba[ch]

\* C30: with grayscale the R, G and B of the fill colour are all
\* floor((299 R + 587 G + 114 B) / 1000) of the averaged R, G, B, and its
\* alpha is the averaged alpha.
GrayFillIsFlooredLuma ==
    (workerCell.fillStyle # << >> /\ workerCell.grayscale) =>
        LET rgba == workerCell.rgba
            luma == (299 * rgba[1] + 587 * rgba[2] + 114 * rgba[3]) \div 1000
        IN  workerCell.fillStyle = <<luma, luma, luma, rgba[4]>>

StaggerIndices(pixels, remainderPixels) ==
    {(i * pixels) \div remainderPixels + 1 : i \in 0..(remainderPixels - 1)}

\* C26: when r = D mod N > 0, the enlarged entries are exactly those at the
\* indices floor(i * N / r), i = 0..r-1; these indices are pairwise distinct
\* and lie inside the sequence.
EnlargedAtStaggerIndices ==
    (Partitioned /\ pDim % pCells > 0) =>
        LET r == pDim % pCells
        IN  /\ Enlarged(pSections, pDim \div pCells) = StaggerIndices(pCells, r)
            /\ Cardinality(StaggerIndices(pCells, r)) = r
            /\ StaggerIndices(pCells, r) \subseteq 1..pCells

\* C37: in the partition of D into N cells with r = D mod N, whenever
\* 0 < 2 * r <= N no two adjacent entries are both floor(D/N) + 1: the
\* indices of consecutive enlarged entries differ by at least 2.
NoAdjacentEnlarged ==
    (Partitioned /\ 0 < 2 * (pDim % pCells) /\ 2 * (pDim % pCells) <= pCells) =>
        LET big == Enlarged(pSections, pDim \div pCells)
        IN  /\ \A j \in big : j + 1 \notin big
            /\ \A j, k \in big : j < k => k - j >= 2

\* fifteen enlarged entries among 52 (67 into 52, stride 52/15 = 3.4666...),
\* none next to another, some 3 and some 4 entries apart
NoAdjacentEnlargedWitness ==
    /\ Partitioned /\ pDim = 67 /\ pCells = 52
    /\ Cardinality(Enlarged(pSections, 1)) = 15
    /\ {1, 4, 7, 11} \subseteq Enlarged(pSections, 1)

\* the sizes of the blocks, in loop order
BlockSizes == [k \in DOMAIN pBlocks |-> pBlocks[k].w]

\* C39: in the single-pass worker, for every D >= 1 and 1 <= N <= D, the
\* blocks b = 0..N-1 start at floor(b * D / N) and have the extents
\* floor((b + 1) * D / N) - floor(b * D / N); the extents are all positive,
\* sum to D, tile [0, D) without gap or overlap, and each is floor(D/N) or
\* floor(D/N) + 1 with exactly D mod N blocks of the larger size, the same
\* multiset of sizes as the staggered partition of index.js.
BlocksTileTheAxis ==
    pBlocks # << >> =>
        LET base == pDim \div pCells
        IN  /\ Len(pBlocks) = pCells
            /\ \A k \in DOMAIN pBlocks :
                  /\ pBlocks[k].x = blockStartExact(k - 1, pDim, pCells)
                  /\ pBlocks[k].w = blockStartExact(k, pDim, pCells) - pBlocks[k].x
                  /\ pBlocks[k].w > 0
                  /\ pBlocks[k].w \in {base, base + 1}
            /\ Sum(BlockSizes) = pDim
            /\ pBlocks[1].x = 0
            /\ \A k \in 1..(pCells - 1) : pBlocks[k + 1].x = pBlocks[k].x + pBlocks[k].w
            /\ pBlocks[pCells].x + pBlocks[pCells].w = pDim
            /\ Cardinality(Enlarged(BlockSizes, base)) = pDim % pCells
            /\ Partitioned =>
                  Cardinality(Enlarged(BlockSizes, base)) =
                      Cardinality(Enlarged(pSections, base))

\* C31: after a completed call the alpha of every pixel of a cell is the
\* floor of the mean alpha of the cell's source pixels, also where that mean
\* lies strictly between transparent (0) and opaque (255): the averaged alpha
\* reaches the fill on the scale the fill expects, and the fill replaces the
\* source pixels under it.
AlphaIsCellMean ==
    \A c \in 1..MaxRasterCalls :
        Completed(c) =>
            \A cell \in Cells(calls[c]) :
                \A p \in DOMAIN canvas.px :
                    InRect(p, cell) => canvas.px[p][4] = CellMean(cell)[4]

\* C32: the raster a worker returns for a stripe has the pixel dimensions of
\* the stripe it was given (outer size x full inner extent), not those of the
\* whole image.
ResultIsStripeSized ==
    \A c \in DOMAIN calls :
        \A job \in calls[c].jobs :
            LET stripe == sliceRect(job.task, calls[c].shouldAllocateByRows)
                result == taskResult(calls[c], job.task)
            IN  result.w = stripe.w /\ result.h = stripe.h

\* the rectangle of the stripe that a step composites for call c, if any
Landed(c) ==
    {sliceRect(job.task, calls[c].shouldAllocateByRows) :
        job \in {j \in calls[c].jobs \ calls'[c].jobs :
                    calls'[c].resolvedTasks = calls[c].resolvedTasks + 1}}

\* C33: compositing a finished stripe changes only pixels of the canvas
\* inside that stripe's rectangle (its outer offset and size, the full inner
\* extent), so the pixels of every other stripe stay as they are; and no
\* other step of a running call writes the canvas: the workers and the crops
\* never do.
CompositeStaysInStripe ==
    [][/\ \A c \in DOMAIN calls :
            \A stripe \in Landed(c) :
                /\ DOMAIN canvas'.px = DOMAIN canvas.px
                /\ \A p \in DOMAIN canvas.px :
                      ~InRect(p, stripe) => canvas'.px[p] = canvas.px[p]
       /\ (nextCall' = nextCall /\ \A c \in DOMAIN calls : Landed(c) = {})
              => canvas' = canvas]_vars

\* both stripes of a call have landed, each has painted its own column and
\* the two columns differ
CompositeStaysInStripeWitness ==
    /\ calls[1].resolvedTasks = 2 /\ nextCall = 2
    /\ Len(calls[1].outerValues) = 2 /\ ~calls[1].shouldAllocateByRows
    /\ width = 2 /\ height = 2
    /\ Painted(canvas)
    /\ canvas.px[<<0, 0>>] # canvas.px[<<1, 0>>]
    /\ canvas.px[<<0, 1>>] # canvas.px[<<1, 1>>]

\* the tasks of a call that have left its queue, as a set
Dequeued(call) == SeqRange(Stripes(call)) \ SeqRange(call.tasks)

\* C38: the stripe tasks are dispatched in partition order: they leave the
\* queue first-in first-out, so the offsets of the dequeued tasks are
\* strictly increasing, and a stripe with a larger offset is never dispatched
\* before one with a smaller offset.
DispatchedInPartitionOrder ==
    [][\A c \in DOMAIN calls :
          Started(calls'[c]) =>
              LET all  == Stripes(calls'[c])
                  left == calls'[c].tasks
                  was  == IF Started(calls[c]) THEN calls[c].tasks ELSE all
                  gone == Len(all) - Len(left)
                  now  == {all[k] : k \in (Len(all) - Len(was) + 1)..gone}
              IN  /\ \A i, j \in DOMAIN all :
                        i < j => all[i].outerDimension < all[j].outerDimension
                  /\ Len(left) <= Len(was)
                  /\ left = SubSeq(all, gone + 1, Len(all))
                  /\ \A t \in now :
                        /\ \A k \in DOMAIN left :
                              t.outerDimension < left[k].outerDimension
                        /\ Started(calls[c]) =>
                              \A u \in Dequeued(calls[c]) :
                                  u.outerDimension < t.outerDimension
                  /\ {crop.task : crop \in calls'[c].crops \ calls[c].crops} = now]_vars

\* under the limit 1 a call of three stripes has composited its first
\* stripe and dequeued its second; the third, of the largest offset, waits
DispatchedInPartitionOrderWitness ==
    /\ maxWorkers = 1
    /\ Len(calls[1].outerValues) = 3 /\ calls[1].resolvedTasks = 1
    /\ Len(calls[1].tasks) = 1 /\ calls[1].tasks[1].outerDimension = 2
    /\ {t.outerDimension : t \in Dequeued(calls[1])} = {0, 1}
    /\ InFlight(calls[1]) = 1

(***************************************************************************)
(* LimitSpec: the instances of Spec constructed with a maxWorkers option   *)
(* that is not given, zero, negative or positive.                          *)
(***************************************************************************)
LimitOptions == {-2, -1, 0, 1}

LimitInit ==
    /\ width \in 1..MaxDim
    /\ height \in 1..MaxDim
    /\ imageElement = Solid(width, height)
    /\ maxWorkers \in {resolveMaxWorkers(o, h) : o \in LimitOptions, h \in HardwareHints}
    /\ isDisposed = FALSE
    /\ canvas = sizedCanvas(0, 0)
    /\ calls = [c \in 1..MaxCalls |-> UnusedCall]
    /\ nextCall = 1
    /\ lastError = NoError
    /\ pDim = 1 /\ pCells = 1 /\ pSections = << >> /\ pBlocks = << >>
    /\ chains = [c \in DOMAIN calls |-> NoMethod]
    /\ output = NoOutput
    /\ workerCell = NoCell

LimitSpec == LimitInit /\ [][Next]_vars

\* C35: every pixelate call that passes validation pulls at least one stripe
\* task at dispatch, whatever maxWorkers value the constructor was given, so
\* that no call stays pending with its queue full and no task in flight.
DispatchPullsATask ==
    \A c \in DOMAIN calls :
        Started(calls[c]) =>
            /\ Len(calls[c].tasks) < Len(calls[c].outerValues)
            /\ ~(/\ calls[c].status = "pending"
                 /\ calls[c].tasks = Stripes(calls[c])
                 /\ InFlight(calls[c]) = 0)

(***************************************************************************)
(* OpaqueSpec: every source image of opaque pixels in two colours up to    *)
(* MaxOpaqueDim, called with valid and invalid cell counts, without        *)
(* grayscale, by a caller that awaits each call, and disposed at any time. *)
(***************************************************************************)
Opaque == {Red, Teal}

OpaqueInit ==
    /\ width \in 1..MaxOpaqueDim
    /\ height \in 1..MaxOpaqueDim
    /\ imageElement \in [Pixels(width, height) -> Opaque]
    /\ maxWorkers \in {resolveMaxWorkers(o, 0) : o \in WorkerOptions \ {0}}
    /\ isDisposed = FALSE
    /\ canvas = sizedCanvas(0, 0)
    /\ calls = [c \in 1..MaxCalls |-> UnusedCall]
    /\ nextCall = 1
    /\ lastError = NoError
    /\ pDim = 1 /\ pCells = 1 /\ pSections = << >> /\ pBlocks = << >>
    /\ chains = [c \in DOMAIN calls |-> NoMethod]
    /\ output = NoOutput
    /\ workerCell = NoCell

OpaqueNext ==
    \/ \E x \in Args, y \in Args : AwaitedPixelate(x, y, FALSE)
    \/ \E c \in DOMAIN calls : \E crop \in calls[c].crops : CropDone(c, crop)
    \/ \E c \in DOMAIN calls : \E crop \in calls[c].crops : CropFailed(c, crop)
    \/ \E c \in DOMAIN calls : \E job \in calls[c].jobs : WorkerMessage(c, job)
    \/ \E c \in DOMAIN calls : \E job \in calls[c].jobs : WorkerError(c, job)
    \/ Dispose

OpaqueSpec == OpaqueInit /\ [][OpaqueNext]_vars

\* an integer cell count from 1 to the dimension, both ends included
InRange(v, dimension) ==
    IsInteger(v) /\ v.den <= v.num /\ v.num <= dimension * v.den

\* after the step, call c is completed on the full grid without grayscale
FullGridDone(c) ==
    /\ calls'[c].status = "resolved" /\ nextCall' = c + 1
    /\ calls'[c].xPixels = width /\ calls'[c].yPixels = height
    /\ ~calls'[c].grayscale

\* at the full grid every cell is one pixel and the canvas is the source,
\* pixel for pixel
FullGridIsIdentity ==
    \A c \in DOMAIN calls :
        FullGridDone(c) =>
            /\ \A cell \in Cells(calls'[c]) : cell.w = 1 /\ cell.h = 1
            /\ Cardinality(Cells(calls'[c])) = width * height
            /\ canvas'.w = width /\ canvas'.h = height
            /\ canvas'.px = imageElement

\* C36 as claimed: pixelate accepts exactly the integer pairs with
\* 1 <= xCells <= width and 1 <= yCells <= height, both bounds included; at
\* xCells = width and yCells = height every cell is one pixel, and without
\* grayscale the output of an opaque source equals the source pixel for pixel.
AcceptsExactlyTheGrid ==
    [][/\ \A x \in Args, y \in Args :
            Pixelate(x, y, FALSE) =>
                (lastError' = NoError <=> (InRange(x, width) /\ InRange(y, height)))
       /\ FullGridIsIdentity]_vars

\* C36 as amended: on an instance that has not been disposed, pixelate
\* accepts exactly the integer pairs with 1 <= xCells <= width and
\* 1 <= yCells <= height, both bounds included (on a disposed instance it
\* accepts none); at xCells = width and yCells = height every cell is one
\* pixel, and without grayscale the output of an opaque source equals the
\* source pixel for pixel.
LiveAcceptsExactlyTheGrid ==
    [][/\ \A x \in Args, y \in Args :
            Pixelate(x, y, FALSE) =>
                /\ ~isDisposed =>
                      (lastError' = NoError <=>
                          (InRange(x, width) /\ InRange(y, height)))
                /\ isDisposed => lastError' = DisposedError
                /\ lastError' = NoError <=> nextCall' = nextCall + 1
       /\ FullGridIsIdentity]_vars

\* a call on the full grid of a 2x2 source of two colours has completed, and
\* the canvas shows the source
LiveAcceptsExactlyTheGridWitness ==
    /\ Completed(1) /\ lastError = NoError
    /\ width = 2 /\ height = 2
    /\ calls[1].xPixels = 2 /\ calls[1].yPixels = 2 /\ ~calls[1].grayscale
    /\ ~Uniform(canvas)
    /\ canvas.px = imageElement
    /\ imageElement[<<0, 0>>] # imageElement[<<1, 0>>]
    /\ imageElement[<<0, 0>>] # imageElement[<<0, 1>>]

(***************************************************************************)
(* OverlapSpec: the opaque sources of OpaqueSpec and a caller that does not *)
(* await: a pixelate call may be made while an earlier one is in flight.   *)
(***************************************************************************)
OverlapInit ==
    /\ width \in 1..MaxOpaqueDim
    /\ height \in 1..MaxOpaqueDim
    /\ imageElement \in [Pixels(width, height) -> Opaque]
    /\ maxWorkers \in {resolveMaxWorkers(o, 0) : o \in WorkerOptions \ {0}}
    /\ isDisposed = FALSE
    /\ canvas = sizedCanvas(0, 0)
    /\ calls = [c \in 1..MaxOverlapCalls |-> UnusedCall]
    /\ nextCall = 1
    /\ lastError = NoError
    /\ pDim = 1 /\ pCells = 1 /\ pSections = << >> /\ pBlocks = << >>
    /\ chains = [c \in DOMAIN calls |-> NoMethod]
    /\ output = NoOutput
    /\ workerCell = NoCell

OverlapNext ==
    \/ \E x \in CellCounts(width), y \in CellCounts(height) : Pixelate(x, y, FALSE)
    \/ \E c \in DOMAIN calls : \E crop \in calls[c].crops : CropDone(c, crop)
    \/ \E c \in DOMAIN calls : \E crop \in calls[c].crops : CropFailed(c, crop)
    \/ \E c \in DOMAIN calls : \E job \in calls[c].jobs : WorkerMessage(c, job)
    \/ \E c \in DOMAIN calls : \E job \in calls[c].jobs : WorkerError(c, job)

OverlapSpec == OverlapInit /\ [][OverlapNext]_vars

\* C34: when a second pixelate call is started on an instance before the
\* first has resolved, the canvas holds exactly the pixelation of the
\* later-started call from the moment that call resolves: no stripe of the
\* other call has overwritten a part of it, and none does afterwards.
LaterCallOwnsTheCanvas ==
    \A c \in DOMAIN calls :
        \A d \in 1..(c - 1) :
            (Started(calls[d]) /\ Completed(c)) =>
                /\ canvas = pixelation(calls[c].xPixels, calls[c].yPixels,
                                       calls[c].grayscale)
                /\ canvas = composite(sizedCanvas(width, height), calls[c],
                                      Stripes(calls[c]))

====
